---- MODULE Spec2Model ----
(***************************************************************************)
(* Model of the asynchronous-to-synchronous correlation layer and of the   *)
(* stack gate of esp_matter_controller_http_server.cpp.                    *)
(*                                                                         *)
(* Handler threads run the HTTP handlers; one delivery context (the        *)
(* stack's own task) invokes the read callbacks.  Every timed wait of the  *)
(* code (xSemaphoreTake with a tick count, chip_stack_lock with a tick     *)
(* count) is a pair of actions: the take, enabled when the primitive is    *)
(* free, and the timeout, enabled when it is not.  Time itself is not      *)
(* modelled.                                                               *)
(***************************************************************************)
EXTENDS Integers, Sequences, FiniteSets, TLC

\* ---- bounds -------------------------------------------------------------
MaxItems == 1       \* items the stack delivers for one read command
MaxPaths == 1       \* paths in one request
MaxServerCalls == 4 \* calls of start_http_server / stop_http_server
MaxEvents == 3      \* events posted to the default event loop

\* ---- constants of the model --------------------------------------------
\* The handler threads.  Each serves one request, so a thread also names the
\* request it serves and the result record that request allocates.
Threads == {"h1", "h2"}
Nodes == {"n1", "n2"}
Calls == Threads

\* s_server == NULL
NoServer == "NULL"

\* s_read_results_mutex == nullptr
NullMutex == "nullptr"

\* it == s_read_results.end(): the map has no entry for the node
NoRec == "none"
Regs == {"read", "write"}
Kinds == {"read", "write", "bounded", "unbounded", "guarded"}

VARIABLES
    th,          \* per handler thread: position and locals of the handler
    rec,         \* heap: the ReadAttributeResult / WriteAttributeResult of each call
    reg,         \* s_read_results / s_write_results: node id -> record
    mtx,         \* owner of s_read_results_mutex / s_write_results_mutex
    mtxCreated,  \* s_*_results_mutex != nullptr
    gate,        \* owner of the chip stack lock
    ops,         \* read commands accepted by the stack and not yet done
    disp,        \* the delivery context: the callback it is executing
    invoked,     \* history: items for which a result callback was invoked, per call
    solo,        \* history: no other operation of the kind on the key during the call
    badRelease,  \* history: the gate was released by a thread that did not hold it
    ub,          \* history: a callback dereferenced a deleted record
    srv,         \* s_server, s_cors_enabled, the httpd instances, the calls made
    lazy,        \* the registry mutex handles at statement level: the objects
                 \* created, who holds each, each thread's place in the section
    app          \* the event loop: the handlers registered, the events posted

vars == <<th, rec, reg, mtx, mtxCreated, gate, ops, disp,
          invoked, solo, badRelease, ub, srv, lazy, app>>

\* ---- records ------------------------------------------------------------
\* ReadAttributeResult(expected_count) / WriteAttributeResult(expected_count)
NewResult(expected_count) ==
    [st |-> "live", items |-> <<>>, sem |-> 0, success |-> FALSE,
     expected |-> expected_count, received |-> 0, posts |-> 0]

\* ~ReadAttributeResult() / ~WriteAttributeResult(): semaphore and array are
\* freed; the same value stands for memory that never held a record
DeletedResult ==
    [st |-> "freed", items |-> <<>>, sem |-> 0, success |-> FALSE,
     expected |-> 0, received |-> 0, posts |-> 0]

\* http_attribute_data_callback, the update of the located record
ReadAppend(r, item) ==
    [r EXCEPT !.items = Append(@, item), !.received = @ + 1, !.success = TRUE]

\* http_write_response_callback, the update of the located record
WriteAppend(r, item) ==
    [r EXCEPT !.items = Append(@, item), !.received = @ + 1,
              !.success = (r.success \/ r.received + 1 >= r.expected)]

\* xSemaphoreGive(result->semaphore) on a binary semaphore; posts counts the
\* gives the record has seen (two stands for two or more)
SignalDone(r) == [r EXCEPT !.sem = 1, !.posts = IF @ < 2 THEN @ + 1 ELSE @]

\* ---- handler threads ----------------------------------------------------
IdleThread ==
    [pc |-> "idle", kind |-> "none", key |-> "n1", n |-> 1,
     result |-> "none", outcome |-> "none", resp |-> <<>>,
     landed |-> <<>>, widx |-> 1, acq |-> 0, rel |-> 0]




\* a slot of the stack's table of read commands that holds no command
NoOp == [st |-> "none", node |-> "n1", sent |-> 0]

\* a handler thread outside the code that uses a registry mutex
LazyIdle == [pc |-> "idle", kind |-> "read", held |-> NullMutex]

\* The registry mutexes before the first request: both handles are nullptr and
\* no mutex object exists.  A mutex object is named after the thread whose
\* xSemaphoreCreateMutex() returned it; owner is "none" for an object that was
\* not created.
LazyInit ==
    [handle |-> [R \in Regs |-> NullMutex],
     owner |-> [R \in Regs |-> [m \in Threads |-> "none"]],
     at |-> [t \in Threads |-> LazyIdle],
     cb |-> NullMutex]

\* the default event loop with no handler registered and no event posted
AppInit == [registered |-> {}, posted |-> <<>>]

\* the delivery context between two callbacks
DispIdle == [ph |-> "idle", ty |-> "none", node |-> "n1", item |-> <<>>]

Init ==
    /\ th = [t \in Threads |-> IdleThread]
    /\ rec = [c \in Calls |-> DeletedResult]
    /\ reg = [R \in Regs |-> [nd \in Nodes |-> NoRec]]
    /\ mtx = [R \in Regs |-> "free"]
    /\ mtxCreated = [R \in Regs |-> FALSE]
    /\ gate = "free"
    /\ ops = [c \in Calls |-> NoOp]
    /\ disp = DispIdle
    /\ invoked = [c \in Calls |-> <<>>]
    /\ solo = [c \in Calls |-> TRUE]
    /\ badRelease = FALSE
    /\ ub = FALSE
    /\ srv = [server |-> NoServer, cors |-> FALSE, live |-> 0, hist |-> <<>>]
    /\ lazy = LazyInit
    /\ app = AppInit

\* ---- the callbacks' work on the registry --------------------------------
LiveRecs == {c \in Calls : rec[c].st = "live"}

\* the entry's pointer refers to a deleted record
Dangling(e) == e # NoRec /\ rec[e].st # "live"

\* A lookup that leaves out the it != end() test: the callback writes through
\* the end iterator, into any live record.
TargetsNoEndCheck(e) ==
    IF e = NoRec \/ rec[e].st # "live" THEN LiveRecs ELSE {e}

\* The records an update through entry e can land in.  it == end(): none.
\* A pointer to a deleted record is a use after free: the write lands in
\* whatever occupies that memory now, any live record or none.
Targets(e) ==
    IF e = NoRec THEN {NoRec}
    ELSE IF rec[e].st = "live" THEN {e}
    ELSE {NoRec} \cup LiveRecs

\* body of http_attribute_data_callback / http_write_response_callback,
\* executed with the registry mutex held
OnResult(R, node, item) ==
    LET e == reg[R][node] IN
    /\ \E tgt \in Targets(e) :
         rec' = IF tgt = NoRec THEN rec
                ELSE [rec EXCEPT ![tgt] = IF R = "read" THEN ReadAppend(@, item)
                                          ELSE WriteAppend(@, item)]
    /\ ub' = (ub \/ Dangling(e))

\* body of http_read_done_callback / http_write_done_callback,
\* executed with the registry mutex held
OnDone(R, node) ==
    LET e == reg[R][node] IN
    /\ \E tgt \in Targets(e) :
         rec' = IF tgt = NoRec THEN rec ELSE [rec EXCEPT ![tgt] = SignalDone(@)]
    /\ ub' = (ub \/ Dangling(e))

\* ---- read_attribute_handler / write_attribute_handler -------------------
\* other calls of the same kind on the same node that are in progress
Others(c, k, nd) ==
    {c2 \in Calls \ {c} :
        \/ /\ th[c2].pc \notin {"idle", "done"}
           /\ th[c2].kind = k /\ th[c2].key = nd
        \/ k = "read" /\ ops[c2].st = "active" /\ ops[c2].node = nd}

\* the call is before the point where its response is sent
Answering(c) == th[c].pc \notin {"idle", "done", "cleanup_erase"}

\* Entry of read_attribute_handler / write_attribute_handler with a request
\* that passes validation: the registry mutex is created if needed and the
\* result record is allocated with the number of paths.  The creation is one
\* step here; its statements are the actions on lazy below.
Begin(t, k) ==
    LET c == t IN
    /\ th[t].pc = "idle"
    /\ \E nd \in Nodes, cnt \in 1..MaxPaths :
         /\ th' = [th EXCEPT ![t] = [IdleThread EXCEPT !.pc = "reg_take", !.kind = k,
                                        !.key = nd, !.n = cnt]]
         /\ rec' = [rec EXCEPT ![c] = NewResult(cnt)]
         /\ solo' = [c2 \in Calls |->
                        IF c2 = c THEN Others(c, k, nd) = {}
                        ELSE IF c2 \in Others(c, k, nd) THEN FALSE
                        ELSE solo[c2]]
    /\ mtxCreated' = [mtxCreated EXCEPT ![k] = TRUE]
    /\ UNCHANGED <<srv, lazy, app, reg, mtx, gate, ops, disp, invoked, badRelease, ub>>

StartRead(t) == Begin(t, "read")

StartWrite(t) == Begin(t, "write")

\* a request that fails validation before anything is shared: 400
Reject(t) ==
    /\ th[t].pc = "idle"
    /\ th' = [th EXCEPT ![t] = [IdleThread EXCEPT !.pc = "done", !.outcome = "BadRequest"]]
    /\ UNCHANGED <<srv, lazy, app, rec, reg, mtx, mtxCreated, gate, ops, disp, invoked, solo, badRelease, ub>>

\* a request whose endpoint_ids (read and write) or cluster_ids / attribute_ids
\* (read) is an empty array: json_array_to_uint16_array / _uint32_array return
\* ESP_ERR_INVALID_ARG for array_len == 0 and the handler answers 400 before
\* the record is allocated
RejectEmpty(t) ==
    /\ th[t].pc = "idle"
    /\ \E k \in Regs, nd \in Nodes :
         th' = [th EXCEPT ![t] = [IdleThread EXCEPT !.pc = "done", !.kind = k, !.key = nd,
                                        !.n = 0, !.outcome = "BadRequest"]]
    /\ UNCHANGED <<srv, lazy, app, rec, reg, mtx, mtxCreated, gate, ops, disp, invoked, solo, badRelease, ub>>

\* xSemaphoreTake(s_*_results_mutex, 5000 ms) succeeds at registration
RegTake(t) ==
    /\ th[t].pc = "reg_take"
    /\ mtx[th[t].kind] = "free"
    /\ mtx' = [mtx EXCEPT ![th[t].kind] = t]
    /\ th' = [th EXCEPT ![t].pc = "reg_store"]
    /\ UNCHANGED <<srv, lazy, app, rec, reg, mtxCreated, gate, ops, disp, invoked, solo, badRelease, ub>>

\* A registration error path that returns without `delete read_result`.
RegTimeoutKeepsRecord(t) ==
    /\ th[t].pc = "reg_take"
    /\ mtx[th[t].kind] # "free"
    /\ th' = [th EXCEPT ![t].pc = "done", ![t].outcome = "InternalError"]
    /\ UNCHANGED <<srv, lazy, app, rec, reg, mtx, mtxCreated, gate, ops, disp, invoked, solo, badRelease, ub>>

\* xSemaphoreTake(s_*_results_mutex, 5000 ms) times out at registration:
\* the record is deleted and the handler answers 500
RegTimeout(t) ==
    /\ th[t].pc = "reg_take"
    /\ mtx[th[t].kind] # "free"
    /\ rec' = [rec EXCEPT ![t] = DeletedResult]
    /\ th' = [th EXCEPT ![t].pc = "done", ![t].outcome = "InternalError"]
    /\ UNCHANGED <<srv, lazy, app, reg, mtx, mtxCreated, gate, ops, disp, invoked, solo, badRelease, ub>>

\* s_read_results[nodeId] = read_result: the map after the store
Register(m, nodeId, result) == [m EXCEPT ![nodeId] = result]

\* A registration that returns from the store without xSemaphoreGive.
RegStoreKeepsMutex(t) ==
    LET R == th[t].kind IN
    /\ th[t].pc = "reg_store"
    /\ reg' = [reg EXCEPT ![R] = Register(@, th[t].key, t)]
    /\ th' = [th EXCEPT ![t].pc = "gate"]
    /\ UNCHANGED <<srv, lazy, app, rec, mtx, mtxCreated, gate, ops, disp, invoked, solo, badRelease, ub>>

\* the store into the map and the release of the registry mutex
RegStore(t) ==
    LET R == th[t].kind IN
    /\ th[t].pc = "reg_store"
    /\ reg' = [reg EXCEPT ![R] = Register(@, th[t].key, t)]
    /\ mtx' = [mtx EXCEPT ![R] = "free"]
    /\ th' = [th EXCEPT ![t].pc = "gate"]
    /\ UNCHANGED <<srv, lazy, app, rec, mtxCreated, gate, ops, disp, invoked, solo, badRelease, ub>>

\* A handler that goes on to its stack call whatever chip_stack_lock returned.
AcquireMatterLockUnchecked(t) ==
    /\ th[t].pc = "gate" \/ (th[t].pc = "g_gate" /\ th[t].kind = "bounded")
    /\ gate' = t
    /\ th' = [th EXCEPT ![t].pc = IF th[t].pc = "gate" THEN "issue" ELSE "g_call",
                        ![t].acq = @ + 1]
    /\ UNCHANGED <<srv, lazy, app, rec, reg, mtx, mtxCreated, ops, disp, invoked, solo, badRelease, ub>>

\* acquire_matter_lock() returns true: chip_stack_lock(2000 ms) got the gate
AcquireMatterLock(t) ==
    /\ th[t].pc = "gate" \/ (th[t].pc = "g_gate" /\ th[t].kind = "bounded")
    /\ gate = "free"
    /\ gate' = t
    /\ th' = [th EXCEPT ![t].pc = IF th[t].pc = "gate" THEN "issue" ELSE "g_call",
                        ![t].acq = @ + 1]
    /\ UNCHANGED <<srv, lazy, app, rec, reg, mtx, mtxCreated, ops, disp, invoked, solo, badRelease, ub>>

\* A wait for the gate with portMAX_DELAY has no timeout to return from.
AcquireMatterLockForever(t) ==
    /\ th[t].pc = "gate" \/ (th[t].pc = "g_gate" /\ th[t].kind = "bounded")
    /\ FALSE
    /\ UNCHANGED vars

\* acquire_matter_lock() returns false: read and write go on to remove their
\* entry and answer 503; the other handlers answer 500 at once
AcquireMatterLockTimeout(t) ==
    /\ th[t].pc = "gate" \/ (th[t].pc = "g_gate" /\ th[t].kind = "bounded")
    /\ gate # "free"
    /\ th' = [th EXCEPT ![t].pc = IF th[t].pc = "gate" THEN "cleanup_take" ELSE "done",
                        ![t].outcome = "Busy"]
    /\ UNCHANGED <<srv, lazy, app, rec, reg, mtx, mtxCreated, gate, ops, disp, invoked, solo, badRelease, ub>>

\* send_read_attr_command_with_callbacks under the gate: a length mismatch of
\* the three id arrays, a failed allocation or a failed send_command() is a
\* rejection; an accepted command is owed callbacks by the stack
IssueRead(t) ==
    /\ th[t].pc = "issue" /\ th[t].kind = "read"
    /\ \E r \in {"ok", "fail"} :
         /\ th' = [th EXCEPT ![t].pc = "release", ![t].result = r]
         /\ ops' = IF r = "ok"
                   THEN [ops EXCEPT ![t] =
                            [st |-> "active", node |-> th[t].key, sent |-> 0]]
                   ELSE ops
    /\ UNCHANGED <<srv, lazy, app, rec, reg, mtx, mtxCreated, gate, disp, invoked, solo, badRelease, ub>>

\* send_write_attr_command_with_callbacks under the gate, up to the delay:
\* controller::send_write_attr_command accepts or rejects
IssueWrite(t) ==
    /\ th[t].pc = "issue" /\ th[t].kind = "write"
    /\ \E r \in {"ok", "fail"} :
         th' = [th EXCEPT ![t].pc = IF r = "ok" THEN "w_cb_take" ELSE "release",
                          ![t].result = r, ![t].widx = 1]
    /\ UNCHANGED <<srv, lazy, app, rec, reg, mtx, mtxCreated, gate, ops, disp, invoked, solo, badRelease, ub>>

\* where the loop over endpoint_ids goes after the callback for index widx
AfterWriteCb(t) == IF th[t].widx < th[t].n THEN "w_cb_take" ELSE "w_done_take"

\* the simulated http_write_response_callback(node_id, path, 0) takes the
\* write registry mutex (1000 ms)
WriteCbTake(t) ==
    /\ th[t].pc = "w_cb_take"
    /\ mtx["write"] = "free"
    /\ mtx' = [mtx EXCEPT !["write"] = t]
    /\ invoked' = [invoked EXCEPT ![t] = Append(@, <<t, th[t].widx, "path">>)]
    /\ th' = [th EXCEPT ![t].pc = "w_cb_body"]
    /\ UNCHANGED <<srv, lazy, app, rec, reg, mtxCreated, gate, ops, disp, solo, badRelease, ub>>

\* the simulated callback times out on the mutex: the response is dropped
WriteCbTimeout(t) ==
    /\ th[t].pc = "w_cb_take"
    /\ mtx["write"] # "free"
    /\ invoked' = [invoked EXCEPT ![t] = Append(@, <<t, th[t].widx, "path">>)]
    /\ th' = [th EXCEPT ![t].pc = AfterWriteCb(t),
                        ![t].widx = IF th[t].widx < th[t].n THEN @ + 1 ELSE 1]
    /\ UNCHANGED <<srv, lazy, app, rec, reg, mtx, mtxCreated, gate, ops, disp, solo, badRelease, ub>>

\* the simulated callback appends to the record registered for the node
WriteCbBody(t) ==
    /\ th[t].pc = "w_cb_body"
    /\ OnResult("write", th[t].key, <<t, th[t].widx, "path">>)
    /\ mtx' = [mtx EXCEPT !["write"] = "free"]
    /\ th' = [th EXCEPT ![t].pc = AfterWriteCb(t),
                        ![t].widx = IF th[t].widx < th[t].n THEN @ + 1 ELSE 1]
    /\ UNCHANGED <<srv, lazy, app, reg, mtxCreated, gate, ops, disp, invoked, solo, badRelease>>

\* attr_paths.Alloc fails: http_write_done_callback is not called
WriteDoneSkip(t) ==
    /\ th[t].pc = "w_done_take"
    /\ th' = [th EXCEPT ![t].pc = "release"]
    /\ UNCHANGED <<srv, lazy, app, rec, reg, mtx, mtxCreated, gate, ops, disp, invoked, solo, badRelease, ub>>

\* the simulated http_write_done_callback takes the write registry mutex
WriteDoneTake(t) ==
    /\ th[t].pc = "w_done_take"
    /\ mtx["write"] = "free"
    /\ mtx' = [mtx EXCEPT !["write"] = t]
    /\ th' = [th EXCEPT ![t].pc = "w_done_body"]
    /\ UNCHANGED <<srv, lazy, app, rec, reg, mtxCreated, gate, ops, disp, invoked, solo, badRelease, ub>>

\* the simulated done callback times out on the mutex: no signal is posted
WriteDoneTimeout(t) ==
    /\ th[t].pc = "w_done_take"
    /\ mtx["write"] # "free"
    /\ th' = [th EXCEPT ![t].pc = "release"]
    /\ UNCHANGED <<srv, lazy, app, rec, reg, mtx, mtxCreated, gate, ops, disp, invoked, solo, badRelease, ub>>

\* the simulated done callback posts the semaphore of the registered record
WriteDoneBody(t) ==
    /\ th[t].pc = "w_done_body"
    /\ OnDone("write", th[t].key)
    /\ mtx' = [mtx EXCEPT !["write"] = "free"]
    /\ th' = [th EXCEPT ![t].pc = "release"]
    /\ UNCHANGED <<srv, lazy, app, reg, mtxCreated, gate, ops, disp, invoked, solo, badRelease>>

\* chip_stack_unlock(): the owner of the gate after thread t unlocks
Unlock(t) == IF gate = t THEN "free" ELSE gate

\* A handler that goes on to its response and its wait without
\* release_matter_lock().
ReleaseSkipped(t) ==
    /\ th[t].pc = "release"
    /\ th' = [th EXCEPT ![t].pc = "resp"]
    /\ UNCHANGED <<srv, lazy, app, rec, reg, mtx, mtxCreated, gate, ops, disp, invoked, solo, badRelease, ub>>

\* release_matter_lock() right after the command
Release(t) ==
    /\ th[t].pc = "release"
    /\ gate' = Unlock(t)
    /\ badRelease' = (badRelease \/ gate # t)
    /\ th' = [th EXCEPT ![t].pc = "resp", ![t].rel = @ + 1]
    /\ UNCHANGED <<srv, lazy, app, rec, reg, mtx, mtxCreated, ops, disp, invoked, solo, ub>>

\* cJSON_CreateObject() for the response, then the branch on the result of
\* the command: wait for completion, or report the failure
RespAlloc(t) ==
    /\ th[t].pc = "resp"
    /\ \E ok \in BOOLEAN :
         th' = [th EXCEPT
                  ![t].pc = IF ok /\ th[t].result = "ok" THEN "wait" ELSE "cleanup_take",
                  ![t].result = "none",
                  ![t].outcome = IF ~ok THEN "InternalError"
                                 ELSE IF th[t].result = "ok" THEN "none"
                                 ELSE "DispatchFailed"]
    /\ UNCHANGED <<srv, lazy, app, rec, reg, mtx, mtxCreated, gate, ops, disp, invoked, solo, badRelease, ub>>

\* what the handler puts in the response when the semaphore was taken:
\* cJSON_Duplicate of the record's array
Harvest(r) == r.items

\* what the handler puts in the response when the wait timed out: a status
\* and a message, no attributes
TimeoutPayload(r) == <<>>

\* A handler that compares received_responses with expected_responses after
\* the semaphore was taken and answers 500 without results on a mismatch.
WaitSignalCounted(t) ==
    LET c == t
        match == rec[c].received = rec[c].expected IN
    /\ th[t].pc = "wait"
    /\ rec[c].sem = 1
    /\ rec' = [rec EXCEPT ![c].sem = 0]
    /\ th' = [th EXCEPT ![t].pc = "cleanup_take",
                        ![t].outcome = IF match THEN "Success" ELSE "InternalError",
                        ![t].resp = IF match THEN Harvest(rec[c]) ELSE <<>>,
                        ![t].landed = rec[c].items]
    /\ UNCHANGED <<srv, lazy, app, reg, mtx, mtxCreated, gate, ops, disp, invoked, solo, badRelease, ub>>

\* xSemaphoreTake(result->semaphore, 10000 ms) returns pdTRUE; the response
\* is sent with status 200
WaitSignal(t) ==
    LET c == t IN
    /\ th[t].pc = "wait"
    /\ rec[c].sem = 1
    /\ rec' = [rec EXCEPT ![c].sem = 0]
    /\ th' = [th EXCEPT ![t].pc = "cleanup_take", ![t].outcome = "Success",
                        ![t].resp = Harvest(rec[c]), ![t].landed = rec[c].items]
    /\ UNCHANGED <<srv, lazy, app, reg, mtx, mtxCreated, gate, ops, disp, invoked, solo, badRelease, ub>>

\* xSemaphoreTake(result->semaphore, 10000 ms) times out; the response is
\* sent with status 408
WaitTimeout(t) ==
    LET c == t IN
    /\ th[t].pc = "wait"
    /\ rec[c].sem = 0
    /\ th' = [th EXCEPT ![t].pc = "cleanup_take", ![t].outcome = "Timeout",
                        ![t].resp = TimeoutPayload(rec[c]), ![t].landed = rec[c].items]
    /\ UNCHANGED <<srv, lazy, app, rec, reg, mtx, mtxCreated, gate, ops, disp, invoked, solo, badRelease, ub>>

\* the history of a call is dropped once its response is out
Forget(h, c, v) == [h EXCEPT ![c] = v]

\* "Clean up": xSemaphoreTake(s_*_results_mutex, ...) succeeds.  The same
\* block follows the busy answer, the failed response allocation and the
\* end of the handler.
CleanupTake(t) ==
    /\ th[t].pc = "cleanup_take"
    /\ mtx[th[t].kind] = "free"
    /\ mtx' = [mtx EXCEPT ![th[t].kind] = t]
    /\ th' = [th EXCEPT ![t].pc = "cleanup_erase", ![t].resp = <<>>, ![t].landed = <<>>]
    /\ invoked' = Forget(invoked, t, <<>>)
    /\ solo' = Forget(solo, t, TRUE)
    /\ UNCHANGED <<srv, lazy, app, rec, reg, mtxCreated, gate, ops, disp, badRelease, ub>>

\* A cleanup whose delete sits inside the if with the erase: when the mutex is
\* not obtained the record stays allocated.
CleanupTimeoutLeak(t) ==
    /\ th[t].pc = "cleanup_take"
    /\ mtx[th[t].kind] # "free"
    /\ th' = [th EXCEPT ![t].pc = "done", ![t].resp = <<>>, ![t].landed = <<>>]
    /\ invoked' = Forget(invoked, t, <<>>)
    /\ solo' = Forget(solo, t, TRUE)
    /\ UNCHANGED <<srv, lazy, app, rec, reg, mtx, mtxCreated, gate, ops, disp, badRelease, ub>>

\* "Clean up": the mutex is not obtained; erase is skipped, the record is
\* deleted all the same
CleanupTimeout(t) ==
    /\ th[t].pc = "cleanup_take"
    /\ mtx[th[t].kind] # "free"
    /\ rec' = [rec EXCEPT ![t] = DeletedResult]
    /\ th' = [th EXCEPT ![t].pc = "done", ![t].resp = <<>>, ![t].landed = <<>>]
    /\ invoked' = Forget(invoked, t, <<>>)
    /\ solo' = Forget(solo, t, TRUE)
    /\ UNCHANGED <<srv, lazy, app, reg, mtx, mtxCreated, gate, ops, disp, badRelease, ub>>

\* s_read_results.erase(nodeId): the map after the erase
Erase(m, nodeId) == [m EXCEPT ![nodeId] = NoRec]

\* "Clean up": erase under the mutex, give the mutex, delete the record
CleanupErase(t) ==
    LET R == th[t].kind IN
    /\ th[t].pc = "cleanup_erase"
    /\ reg' = [reg EXCEPT ![R] = Erase(@, th[t].key)]
    /\ mtx' = [mtx EXCEPT ![R] = "free"]
    /\ rec' = [rec EXCEPT ![t] = DeletedResult]
    /\ th' = [th EXCEPT ![t].pc = "done"]
    /\ UNCHANGED <<srv, lazy, app, mtxCreated, gate, ops, disp, invoked, solo, badRelease, ub>>

\* ---- the handlers that only issue a command -----------------------------
\* Entry of a handler that issues one controller command under the gate:
\* "bounded" takes the gate with acquire_matter_lock (pairing, invoke),
\* "unbounded" with chip_stack_lock(portMAX_DELAY) (commissioning window,
\* read event, subscribe, shutdown subscription, BLE scan), "guarded" is
\* unbounded and validates a parameter under the gate (group settings, UDC,
\* shutdown all subscriptions)
StartCommand(t) ==
    /\ th[t].pc = "idle"
    /\ \E k \in {"bounded", "unbounded", "guarded"} :
         th' = [th EXCEPT ![t] = [IdleThread EXCEPT !.pc = "g_gate", !.kind = k]]
    /\ UNCHANGED <<srv, lazy, app, rec, reg, mtx, mtxCreated, gate, ops, disp, invoked, solo, badRelease, ub>>

\* chip_stack_lock(portMAX_DELAY): blocks until the gate is free
ChipStackLock(t) ==
    /\ th[t].pc = "g_gate" /\ th[t].kind \in {"unbounded", "guarded"}
    /\ gate = "free"
    /\ gate' = t
    /\ th' = [th EXCEPT ![t].pc = "g_call", ![t].acq = @ + 1]
    /\ UNCHANGED <<srv, lazy, app, rec, reg, mtx, mtxCreated, ops, disp, invoked, solo, badRelease, ub>>

\* the controller command issued under the gate
StackCall(t) ==
    /\ th[t].pc = "g_call"
    /\ \E r \in {"ok", "fail"} :
         th' = [th EXCEPT ![t].pc = "g_release", ![t].result = r]
    /\ UNCHANGED <<srv, lazy, app, rec, reg, mtx, mtxCreated, gate, ops, disp, invoked, solo, badRelease, ub>>

\* An error return that leaves out chip_stack_unlock().
ValidateFailNoUnlock(t) ==
    /\ th[t].pc = "g_call" /\ th[t].kind = "guarded"
    /\ th' = [th EXCEPT ![t].pc = "done", ![t].outcome = "BadRequest"]
    /\ UNCHANGED <<srv, lazy, app, rec, reg, mtx, mtxCreated, gate, ops, disp, invoked, solo, badRelease, ub>>

\* a parameter found invalid under the gate: unlock and answer 400
ValidateFail(t) ==
    /\ th[t].pc = "g_call" /\ th[t].kind = "guarded"
    /\ gate' = Unlock(t)
    /\ badRelease' = (badRelease \/ gate # t)
    /\ th' = [th EXCEPT ![t].pc = "done", ![t].outcome = "BadRequest", ![t].rel = @ + 1]
    /\ UNCHANGED <<srv, lazy, app, rec, reg, mtx, mtxCreated, ops, disp, invoked, solo, ub>>

\* unlock after the command and answer 200 or 500
StackCallRelease(t) ==
    /\ th[t].pc = "g_release"
    /\ gate' = Unlock(t)
    /\ badRelease' = (badRelease \/ gate # t)
    /\ th' = [th EXCEPT ![t].pc = "done", ![t].rel = @ + 1, ![t].result = "none",
                        ![t].outcome = IF th[t].result = "ok" THEN "Success"
                                       ELSE "DispatchFailed"]
    /\ UNCHANGED <<srv, lazy, app, rec, reg, mtx, mtxCreated, ops, disp, invoked, solo, ub>>

\* ---- the stack's delivery context ---------------------------------------
\* the history of invoked result callbacks grows while the call is unanswered
Invoke(c, item) ==
    IF Answering(c) THEN [invoked EXCEPT ![c] = Append(@, item)] ELSE invoked

\* the stack invokes http_attribute_data_callback(node_id, path, data) for an
\* accepted read and xSemaphoreTake(s_read_results_mutex, 1000 ms) succeeds;
\* the JSON object the callback builds carries the decoded value, or a null
\* value when data == nullptr
AttributeDataTake(data) ==
    /\ disp.ph = "idle"
    /\ mtx["read"] = "free"
    /\ \E c \in Calls :
         /\ ops[c].st = "active"
         /\ ops[c].sent < MaxItems
         /\ ops' = [ops EXCEPT ![c].sent = @ + 1]
         /\ invoked' = Invoke(c, <<c, ops[c].sent + 1, data>>)
         /\ disp' = [ph |-> "locked", ty |-> "data", node |-> ops[c].node,
                     item |-> <<c, ops[c].sent + 1, data>>]
    /\ mtx' = [mtx EXCEPT !["read"] = "disp"]
    /\ UNCHANGED <<srv, lazy, app, th, rec, reg, mtxCreated, gate, solo, badRelease, ub>>

\* the callback is handed a TLV reader
DataTake == AttributeDataTake("value")

\* the callback is handed data == nullptr: the stack has no value for the path
DataTakeNull == AttributeDataTake("null")

\* the stack invokes http_attribute_data_callback and the take times out:
\* the callback returns without doing anything
DataTimeout ==
    /\ disp.ph = "idle"
    /\ mtx["read"] # "free"
    /\ \E c \in Calls :
         /\ ops[c].st = "active"
         /\ ops[c].sent < MaxItems
         /\ ops' = [ops EXCEPT ![c].sent = @ + 1]
         /\ invoked' = Invoke(c, <<c, ops[c].sent + 1, "value">>)
    /\ UNCHANGED <<srv, lazy, app, th, rec, reg, mtx, mtxCreated, gate, disp, solo, badRelease, ub>>

\* the stack invokes http_read_done_callback, once, as the last callback of
\* the command, and the take succeeds
DoneTake ==
    /\ disp.ph = "idle"
    /\ mtx["read"] = "free"
    /\ \E c \in Calls :
         /\ ops[c].st = "active"
         /\ ops' = [ops EXCEPT ![c] = NoOp]
         /\ disp' = [ph |-> "locked", ty |-> "done", node |-> ops[c].node, item |-> <<>>]
    /\ mtx' = [mtx EXCEPT !["read"] = "disp"]
    /\ UNCHANGED <<srv, lazy, app, th, rec, reg, mtxCreated, gate, invoked, solo, badRelease, ub>>

\* the stack invokes http_read_done_callback and the take times out
DoneTimeout ==
    /\ disp.ph = "idle"
    /\ mtx["read"] # "free"
    /\ \E c \in Calls :
         /\ ops[c].st = "active"
         /\ ops' = [ops EXCEPT ![c] = NoOp]
    /\ UNCHANGED <<srv, lazy, app, th, rec, reg, mtx, mtxCreated, gate, disp, invoked, solo, badRelease, ub>>

\* the callback's work under the mutex, and the give
CallbackBody ==
    /\ disp.ph = "locked"
    /\ IF disp.ty = "data" THEN OnResult("read", disp.node, disp.item)
                           ELSE OnDone("read", disp.node)
    /\ mtx' = [mtx EXCEPT !["read"] = "free"]
    /\ disp' = DispIdle
    /\ UNCHANGED <<srv, lazy, app, th, reg, mtxCreated, gate, ops, invoked, solo, badRelease>>

\* ---- the stack's own task and the gate ----------------------------------
\* the stack's task takes the chip stack lock for its own work
EnvLock ==
    /\ gate = "free"
    /\ gate' = "env"
    /\ UNCHANGED <<srv, lazy, app, th, rec, reg, mtx, mtxCreated, ops, disp, invoked, solo, badRelease, ub>>

\* the stack's task gives the chip stack lock back
EnvUnlock ==
    /\ gate = "env"
    /\ gate' = "free"
    /\ UNCHANGED <<srv, lazy, app, th, rec, reg, mtx, mtxCreated, ops, disp, invoked, solo, badRelease, ub>>

\* ---- start_http_server / stop_http_server --------------------------------
\* is_http_server_running(): s_server != NULL
is_http_server_running == srv.server # NoServer

\* get_http_server_handle(): s_server
get_http_server_handle == srv.server

\* the server state with one more call and its return value in the history
Returned(s, call, ret) == [s EXCEPT !.hist = Append(@, <<call, ret>>)]

\* A start_http_server whose registration error path returns without
\* s_server = NULL.
start_http_server_keeps_handle(s, cors_enable, httpd_start_ok, register_ok, httpd_stop_ok) ==
    IF s.server # NoServer
    THEN Returned(s, "start", "ESP_ERR_INVALID_STATE")
    ELSE IF ~httpd_start_ok
    THEN Returned([s EXCEPT !.cors = cors_enable], "start", "httpd_start error")
    ELSE IF ~register_ok
    THEN Returned([s EXCEPT !.cors = cors_enable, !.server = "httpd",
                            !.live = IF httpd_stop_ok THEN @ ELSE @ + 1],
                  "start", "register error")
    ELSE Returned([s EXCEPT !.cors = cors_enable, !.server = "httpd", !.live = @ + 1],
                  "start", "ESP_OK")

\* start_http_server(config) on state s.  httpd_start_ok, register_ok and
\* httpd_stop_ok are the results of httpd_start, of the loop over
\* httpd_register_uri_handler and of the httpd_stop on its error path; live
\* counts the httpd instances that run.
start_http_server(s, cors_enable, httpd_start_ok, register_ok, httpd_stop_ok) ==
    IF s.server # NoServer
    THEN Returned(s, "start", "ESP_ERR_INVALID_STATE")
    ELSE IF ~httpd_start_ok
    THEN Returned([s EXCEPT !.cors = cors_enable], "start", "httpd_start error")
    ELSE IF ~register_ok
    THEN Returned([s EXCEPT !.cors = cors_enable, !.server = NoServer,
                            !.live = IF httpd_stop_ok THEN @ ELSE @ + 1],
                  "start", "register error")
    ELSE Returned([s EXCEPT !.cors = cors_enable, !.server = "httpd", !.live = @ + 1],
                  "start", "ESP_OK")

\* A stop_http_server that clears s_server whatever httpd_stop returned.
stop_http_server_always_resets(s, httpd_stop_ok) ==
    IF s.server = NoServer
    THEN Returned(s, "stop", "ESP_ERR_INVALID_STATE")
    ELSE IF httpd_stop_ok
    THEN Returned([s EXCEPT !.server = NoServer, !.live = @ - 1], "stop", "ESP_OK")
    ELSE Returned([s EXCEPT !.server = NoServer], "stop", "httpd_stop error")

\* stop_http_server() on state s; httpd_stop_ok is the result of httpd_stop
stop_http_server(s, httpd_stop_ok) ==
    IF s.server = NoServer
    THEN Returned(s, "stop", "ESP_ERR_INVALID_STATE")
    ELSE IF httpd_stop_ok
    THEN Returned([s EXCEPT !.server = NoServer, !.live = @ - 1], "stop", "ESP_OK")
    ELSE Returned(s, "stop", "httpd_stop error")

\* a call of start_http_server
StartHttpServer ==
    /\ Len(srv.hist) < MaxServerCalls
    /\ \E cors_enable, httpd_start_ok, register_ok, httpd_stop_ok \in BOOLEAN :
         srv' = start_http_server(srv, cors_enable, httpd_start_ok, register_ok,
                                  httpd_stop_ok)
    /\ UNCHANGED <<th, rec, reg, mtx, mtxCreated, gate, ops, disp, invoked, solo,
                   badRelease, ub, lazy, app>>

\* a call of stop_http_server
StopHttpServer ==
    /\ Len(srv.hist) < MaxServerCalls
    /\ \E httpd_stop_ok \in BOOLEAN : srv' = stop_http_server(srv, httpd_stop_ok)
    /\ UNCHANGED <<th, rec, reg, mtx, mtxCreated, gate, ops, disp, invoked, solo,
                   badRelease, ub, lazy, app>>

\* ---- the example application: events and the server ---------------------
\* the events the WiFi driver and the IP stack post
Events == {"WIFI_EVENT_STA_START", "WIFI_EVENT_STA_DISCONNECTED", "IP_EVENT_STA_GOT_IP"}

\* the event base an event id belongs to
EventBase(event_id) == IF event_id = "IP_EVENT_STA_GOT_IP" THEN "IP_EVENT" ELSE "WIFI_EVENT"

\* initialize_http_server_with_controller(): start_http_server with the
\* example's configuration, cors_enable = true
initialize_http_server_with_controller(s, httpd_start_ok, register_ok, httpd_stop_ok) ==
    start_http_server(s, TRUE, httpd_start_ok, register_ok, httpd_stop_ok)

\* deinitialize_http_server(): stop_http_server
deinitialize_http_server(s, httpd_stop_ok) == stop_http_server(s, httpd_stop_ok)

\* A handler that stops the server and starts it again on every GOT_IP.
wifi_event_handler_restarts(s, event_base, event_id, httpd_start_ok, register_ok, httpd_stop_ok) ==
    IF event_base = "WIFI_EVENT" /\ event_id = "WIFI_EVENT_STA_START" THEN s
    ELSE IF event_base = "IP_EVENT" /\ event_id = "IP_EVENT_STA_GOT_IP"
    THEN IF s.server # NoServer
         THEN initialize_http_server_with_controller(
                  [s EXCEPT !.server = NoServer, !.live = @ - 1],
                  httpd_start_ok, register_ok, httpd_stop_ok)
         ELSE initialize_http_server_with_controller(s, httpd_start_ok, register_ok,
                                                     httpd_stop_ok)
    ELSE IF event_base = "WIFI_EVENT" /\ event_id = "WIFI_EVENT_STA_DISCONNECTED"
    THEN deinitialize_http_server(s, httpd_stop_ok)
    ELSE s

\* wifi_event_handler(arg, event_base, event_id, event_data) on server state s
wifi_event_handler(s, event_base, event_id, httpd_start_ok, register_ok, httpd_stop_ok) ==
    IF event_base = "WIFI_EVENT" /\ event_id = "WIFI_EVENT_STA_START" THEN s
    ELSE IF event_base = "IP_EVENT" /\ event_id = "IP_EVENT_STA_GOT_IP"
    THEN initialize_http_server_with_controller(s, httpd_start_ok, register_ok,
                                                httpd_stop_ok)
    ELSE IF event_base = "WIFI_EVENT" /\ event_id = "WIFI_EVENT_STA_DISCONNECTED"
    THEN deinitialize_http_server(s, httpd_stop_ok)
    ELSE s

\* esp_event_handler_register(event_base, event_id, &wifi_event_handler, NULL)
esp_event_handler_register(registered, event_base, event_id) ==
    registered \cup {<<event_base, event_id>>}

\* the event loop runs wifi_event_handler for an event if the handler is
\* registered for the event's base and id, or for every id of the base
Delivered(registered, event_id) ==
    \/ <<EventBase(event_id), event_id>> \in registered
    \/ <<EventBase(event_id), "ESP_EVENT_ANY_ID">> \in registered

\* setup_matter_controller_with_http_server(): the handler is registered for
\* IP_EVENT_STA_GOT_IP; the registration for WIFI_EVENT is commented out
setup_matter_controller_with_http_server ==
    /\ app.registered = {}
    /\ app' = [app EXCEPT !.registered =
                  esp_event_handler_register(@, "IP_EVENT", "IP_EVENT_STA_GOT_IP")]
    /\ UNCHANGED <<th, rec, reg, mtx, mtxCreated, gate, ops, disp, invoked, solo,
                   badRelease, ub, srv, lazy>>

\* an event is posted and the event loop runs the handlers registered for it
EventPosted ==
    /\ Len(app.posted) < MaxEvents
    /\ Len(srv.hist) < MaxServerCalls
    /\ \E event_id \in Events, httpd_start_ok, register_ok, httpd_stop_ok \in BOOLEAN :
         /\ app' = [app EXCEPT !.posted = Append(@, event_id)]
         /\ srv' = IF Delivered(app.registered, event_id)
                   THEN wifi_event_handler(srv, EventBase(event_id), event_id,
                                           httpd_start_ok, register_ok, httpd_stop_ok)
                   ELSE srv
    /\ UNCHANGED <<th, rec, reg, mtx, mtxCreated, gate, ops, disp, invoked, solo,
                   badRelease, ub, lazy>>

\* ---- send_json_response / safe_send_error_response ----------------------
\* no status line: the handler returned without sending a response
NoStatus == 0

\* send_json_response(req, json, status_code): the code of the status line
\* handed to httpd_resp_set_status, which is HTTPD_200, HTTPD_400 or
\* HTTPD_500; cjson_print_ok is the result of cJSON_Print
send_json_response(status_code, cjson_print_ok) ==
    IF ~cjson_print_ok THEN NoStatus
    ELSE IF status_code = 200 THEN 200
    ELSE IF status_code = 400 THEN 400
    ELSE IF status_code = 500 THEN 500
    ELSE 400

\* safe_send_error_response(req, status_code, error_message); json_ok is the
\* result of cJSON_CreateObject, whose failure is answered in plain text
safe_send_error_response(status_code, json_ok, cjson_print_ok) ==
    IF ~json_ok THEN (IF status_code = 500 THEN 500 ELSE 400)
    ELSE send_json_response(status_code, cjson_print_ok)

\* the status_code read_attribute_handler / write_attribute_handler pass for
\* each outcome
StatusCode(outcome) ==
    CASE outcome = "Success" -> 200
      [] outcome = "BadRequest" -> 400
      [] outcome = "Timeout" -> 408
      [] outcome = "Busy" -> 503
      [] outcome = "DispatchFailed" -> 500
      [] outcome = "InternalError" -> 500

\* the status line the handler of thread t sends for its outcome: the
\* results of the wait and of the command go out through send_json_response,
\* the early returns through safe_send_error_response
SentStatus(t, json_ok, cjson_print_ok) ==
    IF th[t].outcome \in {"Success", "Timeout", "DispatchFailed"}
    THEN send_json_response(StatusCode(th[t].outcome), cjson_print_ok)
    ELSE safe_send_error_response(StatusCode(th[t].outcome), json_ok, cjson_print_ok)

\* ---- init_read_results_mutex / init_write_results_mutex -----------------
\* The use of the registry mutex handles, statement by statement.  The reads
\* and the write of the handle are single loads and stores of a pointer.

\* the handler has validated its request and calls init_*_results_mutex()
LazyEnter(t) ==
    /\ lazy.at[t].pc = "idle"
    /\ \E R \in Regs :
         lazy' = [lazy EXCEPT !.at[t] = [LazyIdle EXCEPT !.pc = "init_check", !.kind = R]]
    /\ UNCHANGED <<th, rec, reg, mtx, mtxCreated, gate, ops, disp, invoked, solo,
                   badRelease, ub, srv, app>>

\* if (!s_*_results_mutex): the test of the handle
InitResultsMutexCheck(t) ==
    LET R == lazy.at[t].kind IN
    /\ lazy.at[t].pc = "init_check"
    /\ lazy' = [lazy EXCEPT !.at[t].pc = IF lazy.handle[R] = NullMutex
                                         THEN "init_create" ELSE "take"]
    /\ UNCHANGED <<th, rec, reg, mtx, mtxCreated, gate, ops, disp, invoked, solo,
                   badRelease, ub, srv, app>>

\* s_*_results_mutex = xSemaphoreCreateMutex(): a new mutex object, stored
\* in the handle
InitResultsMutexCreate(t) ==
    LET R == lazy.at[t].kind IN
    /\ lazy.at[t].pc = "init_create"
    /\ lazy' = [lazy EXCEPT !.owner[R][t] = "free", !.handle[R] = t,
                            !.at[t].pc = "take"]
    /\ UNCHANGED <<th, rec, reg, mtx, mtxCreated, gate, ops, disp, invoked, solo,
                   badRelease, ub, srv, app>>

\* xSemaphoreTake(s_*_results_mutex, ...) at registration and at "Clean up":
\* the handle is read and the object it names is taken
SectionTake(t) ==
    LET R == lazy.at[t].kind
        h == lazy.handle[R] IN
    /\ lazy.at[t].pc \in {"take", "cleanup"}
    /\ lazy.owner[R][h] = "free"
    /\ lazy' = [lazy EXCEPT !.owner[R][h] = t, !.at[t].held = h,
                            !.at[t].pc = IF lazy.at[t].pc = "take" THEN "store"
                                         ELSE "erase"]
    /\ UNCHANGED <<th, rec, reg, mtx, mtxCreated, gate, ops, disp, invoked, solo,
                   badRelease, ub, srv, app>>

\* the take times out: the handler answers 500 (registration) or skips the
\* erase ("Clean up") and returns
SectionTimeout(t) ==
    LET R == lazy.at[t].kind
        h == lazy.handle[R] IN
    /\ lazy.at[t].pc \in {"take", "cleanup"}
    /\ lazy.owner[R][h] # "free"
    /\ lazy' = [lazy EXCEPT !.at[t].pc = "done"]
    /\ UNCHANGED <<th, rec, reg, mtx, mtxCreated, gate, ops, disp, invoked, solo,
                   badRelease, ub, srv, app>>

\* xSemaphoreGive(s_*_results_mutex) by party p: the handle is read again.
\* The object it names is released if p holds it.  If another party holds
\* it, the give is on a mutex the caller does not own: it fails or it
\* releases the mutex under its holder.  If it is free the give fails.
Give(owners, h, p) ==
    IF owners[h] = p THEN {[owners EXCEPT ![h] = "free"]}
    ELSE IF owners[h] = "free" THEN {owners}
    ELSE {owners, [owners EXCEPT ![h] = "free"]}

\* the store into the map or the erase, and the give that ends the section
SectionGive(t) ==
    LET R == lazy.at[t].kind IN
    /\ lazy.at[t].pc \in {"store", "erase"}
    /\ \E o \in Give(lazy.owner[R], lazy.handle[R], t) :
         lazy' = [lazy EXCEPT !.owner[R] = o, !.at[t].held = NullMutex,
                              !.at[t].pc = IF lazy.at[t].pc = "store" THEN "cleanup"
                                           ELSE "done"]
    /\ UNCHANGED <<th, rec, reg, mtx, mtxCreated, gate, ops, disp, invoked, solo,
                   badRelease, ub, srv, app>>

\* a read command has been issued: its handler is past the registration
ReadIssued == \E t \in Threads : lazy.at[t].kind = "read" /\ lazy.at[t].pc = "cleanup"

\* a read callback takes the mutex s_read_results_mutex names, for its find()
CallbackSectionTake ==
    LET h == lazy.handle["read"] IN
    /\ ReadIssued
    /\ lazy.cb = NullMutex
    /\ lazy.owner["read"][h] = "free"
    /\ lazy' = [lazy EXCEPT !.owner["read"][h] = "disp", !.cb = h]
    /\ UNCHANGED <<th, rec, reg, mtx, mtxCreated, gate, ops, disp, invoked, solo,
                   badRelease, ub, srv, app>>

\* the callback has looked up the map and gives the mutex
CallbackSectionGive ==
    /\ lazy.cb # NullMutex
    /\ \E o \in Give(lazy.owner["read"], lazy.handle["read"], "disp") :
         lazy' = [lazy EXCEPT !.owner["read"] = o, !.cb = NullMutex]
    /\ UNCHANGED <<th, rec, reg, mtx, mtxCreated, gate, ops, disp, invoked, solo,
                   badRelease, ub, srv, app>>

\* ---- specifications -----------------------------------------------------
\* steps shared by read_attribute_handler and write_attribute_handler
CorrelatedStep(t) ==
    \/ RegTake(t) \/ RegTimeout(t) \/ RegStore(t)
    \/ AcquireMatterLock(t) \/ AcquireMatterLockTimeout(t)
    \/ Release(t) \/ RespAlloc(t) \/ WaitSignal(t) \/ WaitTimeout(t)
    \/ CleanupTake(t) \/ CleanupTimeout(t) \/ CleanupErase(t)
    \/ Reject(t) \/ RejectEmpty(t)

ReadStep(t) == StartRead(t) \/ IssueRead(t)

WriteStep(t) ==
    \/ StartWrite(t) \/ IssueWrite(t)
    \/ WriteCbTake(t) \/ WriteCbTimeout(t) \/ WriteCbBody(t)
    \/ WriteDoneSkip(t) \/ WriteDoneTake(t) \/ WriteDoneTimeout(t) \/ WriteDoneBody(t)

CommandStep(t) ==
    StartCommand(t) \/ ChipStackLock(t) \/ StackCall(t) \/ ValidateFail(t) \/ StackCallRelease(t)

Dispatcher == DataTake \/ DataTimeout \/ DoneTake \/ DoneTimeout \/ CallbackBody

Env == EnvLock \/ EnvUnlock

\* The handlers and the delivery context.
Next ==
    \/ \E t \in Threads : CorrelatedStep(t) \/ ReadStep(t) \/ WriteStep(t) \/ CommandStep(t)
    \/ Dispatcher

Spec == Init /\ [][Next]_vars

\* read_attribute_handler with a stack that also delivers attributes for
\* which it has no value
NextData == (\E t \in Threads : CorrelatedStep(t) \/ ReadStep(t)) \/ Dispatcher \/ DataTakeNull

SpecData == Init /\ [][NextData]_vars

\* the application starting and stopping the server
NextServer == StartHttpServer \/ StopHttpServer

SpecServer == Init /\ [][NextServer]_vars

\* the handlers that only issue a command, next to a stack task that takes
\* and releases the gate as it likes; each handler thread keeps running, and
\* one that is blocked on the gate gets it if the gate is given again and again
CommandRun(t) ==
    CommandStep(t) \/ AcquireMatterLock(t) \/ AcquireMatterLockTimeout(t)

NextGate == (\E t \in Threads : CommandRun(t)) \/ Env

SpecGate == Init /\ [][NextGate]_vars /\ \A t \in Threads : SF_vars(CommandRun(t))

\* read_attribute_handler and write_attribute_handler next to a stack task
\* that may hold the gate for any time, also for ever.  A handler thread
\* that can take a step eventually takes one: the scheduler runs it, and a
\* timed wait ends when the primitive is given or when its ticks run out.
\* Nothing is assumed of the delivery context and of the stack's task.
HandlerRun(t) == CorrelatedStep(t) \/ ReadStep(t) \/ WriteStep(t)

NextLive == (\E t \in Threads : HandlerRun(t)) \/ Dispatcher \/ Env

SpecLive == Init /\ [][NextLive]_vars /\ \A t \in Threads : WF_vars(HandlerRun(t))

\* the first requests arriving together, down to the statements that create
\* and use the registry mutexes, with the delivery context
LazyStep(t) ==
    \/ LazyEnter(t) \/ InitResultsMutexCheck(t) \/ InitResultsMutexCreate(t)
    \/ SectionTake(t) \/ SectionTimeout(t) \/ SectionGive(t)

NextLazy == (\E t \in Threads : LazyStep(t)) \/ CallbackSectionTake \/ CallbackSectionGive

SpecLazy == Init /\ [][NextLazy]_vars

\* the example application: setup, the events, and the application stopping
\* the server itself
NextApp == setup_matter_controller_with_http_server \/ EventPosted \/ StopHttpServer

SpecApp == Init /\ [][NextApp]_vars

TypeOK ==
    /\ gate \in Threads \cup {"free", "env"}
    /\ \A R \in Regs : mtx[R] \in Threads \cup {"free", "disp"}
    /\ \A R \in Regs : \A nd \in Nodes : reg[R][nd] \in Calls \cup {NoRec}
    /\ \A c \in Calls : rec[c].sem \in {0, 1} /\ rec[c].st \in {"live", "freed"}

\* ---- the claims --------------------------------------------------------
\* the handler has stored its entry and has not yet answered
HoldsEntry(t) ==
    /\ th[t].kind \in Regs
    /\ th[t].pc \in {"gate", "issue", "w_cb_take", "w_cb_body", "w_done_take",
                     "w_done_body", "release", "resp", "wait"}

\* the response of a read or write call has just been sent
Answered(t, o) ==
    th[t].kind \in Regs /\ th[t].pc = "cleanup_take" /\ th[t].outcome = o

\* C1: a request for a node whose entry another request of the same kind
\* still holds is rejected at registration, so two requests of one kind on
\* one node never both get past the store into the registry.
C1_ConflictOnActiveKey ==
    \A t1, t2 \in Threads :
        (t1 # t2 /\ th[t1].kind = th[t2].kind /\ th[t1].key = th[t2].key)
            => ~(HoldsEntry(t1) /\ HoldsEntry(t2))

\* C2: from its registration to its own reclamation a call's record stays
\* the entry registered for its node: no other request replaces or removes it.
C2_FirstEntryIntact ==
    \A t \in Threads : HoldsEntry(t) => reg[th[t].kind][th[t].key] = t

\* C3: a call that ran with no other operation on its node and is answered
\* Success returns exactly the items for which the result callback was
\* invoked, in the order of the invocations.
C3_SuccessInOrder ==
    \A t \in Threads :
        (Answered(t, "Success") /\ solo[t]) => th[t].resp = invoked[t]

\* C4: a call answered Timeout returns exactly the items that had landed in
\* its record when the wait ended.
C4_TimeoutCarriesResults ==
    \A t \in Threads : Answered(t, "Timeout") => th[t].resp = th[t].landed

\* C5: every started read or write handler returns with a definite outcome,
\* whatever the stack's task does with the gate and whatever is delivered.
C5_HandlerReturns ==
    \A t \in Threads :
        (th[t].pc # "idle") ~> (th[t].pc = "done" /\ th[t].outcome # "none")

\* a handler gave up on the gate while the stack's task held it, and one
\* timed out on a command for which nothing was ever delivered
C5_Witness ==
    \E t1, t2 \in Threads :
        /\ th[t1].pc = "done" /\ th[t1].outcome = "Busy" /\ gate = "env"
        /\ th[t2].pc = "done" /\ th[t2].outcome = "Timeout"
        /\ ops[t2].st = "active" /\ ops[t2].sent = 0

\* a read callback holds the mutex and finds no entry for its node
ReadCallbackMisses == disp.ph = "locked" /\ reg["read"][disp.node] = NoRec

\* a simulated write callback holds the mutex and finds no entry for its node
WriteCallbackMisses(t) ==
    th[t].pc \in {"w_cb_body", "w_done_body"} /\ reg["write"][th[t].key] = NoRec

\* C6: a result or done callback that finds no entry for its node changes no
\* registry entry, no record and no semaphore, and touches no freed memory.
C6_MissIsNoOp ==
    [][ /\ (ReadCallbackMisses /\ disp' # disp)
            => (rec' = rec /\ reg' = reg /\ ub' = ub)
        /\ \A t \in Threads :
              (WriteCallbackMisses(t) /\ th'[t] # th[t])
                  => (rec' = rec /\ reg' = reg /\ ub' = ub) ]_vars

\* a callback of a read that has timed out and reclaimed its entry is about
\* to run, while the other request's record is live
C6_Witness ==
    /\ ReadCallbackMisses
    /\ \E t \in Threads : /\ th[t].kind = "read" /\ th[t].key = disp.node
                          /\ th[t].pc = "done" /\ th[t].outcome = "Timeout"
    /\ LiveRecs # {}

\* C7: when a read or write call has returned, the registry holds no entry
\* that refers to the call's record.
C7_NoEntryAfterReturn ==
    \A t \in Threads :
        (th[t].kind \in Regs /\ th[t].pc = "done")
            => \A nd \in Nodes : reg[th[t].kind][nd] # t

\* C8: every pointer stored in a registry refers to a record that has not
\* been deleted.
C8_NoDanglingEntry ==
    \A R \in Regs : \A nd \in Nodes : ~Dangling(reg[R][nd])

\* a thread is inside a call into the stack
InStackCall(t) == th[t].pc \in {"issue", "g_call"}

\* C9: a thread that is inside a call into the stack holds the gate, so at
\* most one call into the stack is in progress.
C9_StackCallsUnderGate ==
    /\ \A t \in Threads : InStackCall(t) => gate = t
    /\ Cardinality({t \in Threads : InStackCall(t)}) <= 1

\* one handler is inside its stack call while the other waits for the gate
C9_Witness ==
    \E t1, t2 \in Threads :
        /\ th[t1].pc = "issue" /\ th[t2].pc = "g_gate"

\* C10: a handler releases the gate only while it holds it, at most once,
\* and has released it when it returns.
C10_AcquireReleasePaired ==
    /\ ~badRelease
    /\ \A t \in Threads :
          /\ th[t].rel <= th[t].acq /\ th[t].acq <= 1
          /\ (gate = t) = (th[t].acq = 1 /\ th[t].rel = 0)
          /\ th[t].pc = "done" => (th[t].rel = th[t].acq /\ gate # t)

\* a handler returned 400 for a parameter it found invalid under the gate,
\* and another returned after a command that failed
C10_Witness ==
    \E t1, t2 \in Threads :
        /\ th[t1].pc = "done" /\ th[t1].kind = "guarded"
        /\ th[t1].outcome = "BadRequest" /\ th[t1].acq = 1
        /\ th[t2].pc = "done" /\ th[t2].outcome = "DispatchFailed" /\ th[t2].acq = 1

\* C11: a read or write request with zero paths is accepted: it is never
\* answered as an invalid request.
C11_ZeroExpectedIsValid ==
    \A t \in Threads :
        (th[t].kind \in Regs /\ th[t].n = 0 /\ th[t].pc = "done")
            => th[t].outcome # "BadRequest"

\* C12: a read or write call that gives up on the gate answers Busy, makes
\* no stack call, leaves the gate's owner and every registry entry of other
\* calls as they are, and has removed its own entry when it returns.
C12_BusyRemovesOwnEntryOnly ==
    [][ \A t \in Threads :
          (th[t].kind \in Regs /\ th'[t].outcome = "Busy" /\ th'[t] # th[t])
              => /\ gate' = gate /\ ops' = ops
                 /\ \A nd \in Nodes :
                       reg'[th[t].kind][nd] # reg[th[t].kind][nd]
                           => reg[th[t].kind][nd] = t
                 /\ th'[t].pc = "done"
                       => \A nd \in Nodes : reg'[th[t].kind][nd] # t ]_vars

\* C13: a read or write call whose command was rejected under the gate has
\* released the gate, never waits for the completion semaphore, and has
\* removed its registry entry when it returns DispatchFailed.
C13_DispatchFailureCleansUp ==
    \A t \in Threads :
        (th[t].kind \in Regs /\ th[t].outcome = "DispatchFailed")
            => /\ th[t].pc \in {"cleanup_take", "cleanup_erase", "done"}
               /\ gate # t /\ th[t].rel = th[t].acq
               /\ th[t].pc = "done" => \A nd \in Nodes : reg[th[t].kind][nd] # t

\* C14: over its lifetime a record's completion semaphore is given at most
\* once.
C14_SignalAtMostOnce ==
    \A c \in Calls : rec[c].posts <= 1

\* a result callback is finishing its body in this step
ResultCallbackStep ==
    \/ disp.ph = "locked" /\ disp.ty = "data" /\ disp' # disp
    \/ \E t \in Threads : th[t].pc = "w_cb_body" /\ th'[t] # th[t]

\* C15: as long as a record lives its received_responses never decreases; it
\* changes only in a result callback, by one together with one appended item,
\* and only while the record is the entry registered for its node.
C15_ReceivedMonotone ==
    [][ \A c \in Calls :
          (rec[c].st = "live" /\ rec'[c].st = "live")
              => /\ rec'[c].received >= rec[c].received
                 /\ rec'[c].received = Len(rec'[c].items)
                 /\ rec'[c].received # rec[c].received
                       => /\ rec'[c].received = rec[c].received + 1
                          /\ ResultCallbackStep
                          /\ reg[th[c].kind][th[c].key] = c ]_vars

\* C16: the record a read or write handler allocates is allocated exactly
\* from the handler's allocation to its return: every exit path deletes it,
\* and none deletes it before the return or a second time.
C16_ReclaimedOnce ==
    \A t \in Threads :
        (rec[t].st = "live") = (th[t].kind \in Regs /\ th[t].pc \notin {"idle", "done"})

\* the two handlers have returned on different exit paths, one of them with
\* the cleanup mutex not obtained, and both records are deleted
C16_Witness ==
    \E t1, t2 \in Threads :
        /\ th[t1].pc = "done" /\ th[t1].outcome = "Timeout" /\ reg[th[t1].kind][th[t1].key] = t1
        /\ th[t2].pc = "done" /\ th[t2].outcome \in {"Busy", "InternalError", "DispatchFailed"}
        /\ rec[t1].st = "freed" /\ rec[t2].st = "freed"

\* C17: a completed call is answered Success only when no item was flagged
\* by the stack: none of the items it returns is one the stack had no value
\* for.
C17_SuccessOnlyWithoutError ==
    \A t \in Threads :
        Answered(t, "Success")
            => \A i \in 1..Len(th[t].resp) : th[t].resp[i][3] # "null"

\* this step is a call of start_http_server or stop_http_server
ServerCall(call) ==
    /\ Len(srv'.hist) = Len(srv.hist) + 1
    /\ srv'.hist[Len(srv'.hist)][1] = call

\* the value the call of this step returns
ReturnOf == srv'.hist[Len(srv'.hist)][2]

\* the call leaves s_server, s_cors_enabled and the httpd instances alone
ServerUntouched ==
    srv'.server = srv.server /\ srv'.cors = srv.cors /\ srv'.live = srv.live

\* C18: start_http_server on a running server returns ESP_ERR_INVALID_STATE
\* and changes neither the server, its handle nor the CORS setting; a start
\* that fails in the registration of a handler leaves no httpd instance it
\* started running and leaves the handle NULL.
C18_StartRejectedOrRolledBack ==
    [][ ServerCall("start")
          => /\ is_http_server_running
                   => (ReturnOf = "ESP_ERR_INVALID_STATE" /\ ServerUntouched)
             /\ ReturnOf = "register error"
                   => (srv'.server = NoServer /\ srv'.live = srv.live) ]_vars

\* the calls that returned ESP_OK
SuccessfulCalls == {i \in 1..Len(srv.hist) : srv.hist[i][2] = "ESP_OK"}

\* the most recent successful call is a start
StartedLast ==
    /\ SuccessfulCalls # {}
    /\ LET last == CHOOSE i \in SuccessfulCalls : \A j \in SuccessfulCalls : j <= i
       IN srv.hist[last][1] = "start"

\* C19: is_http_server_running() is true exactly when the most recent
\* successful call was a start, and get_http_server_handle() is NULL exactly
\* when is_http_server_running() is false.
C19_RunningIffStartedLast ==
    /\ is_http_server_running = StartedLast
    /\ (get_http_server_handle = NoServer) = ~is_http_server_running

\* start, a stop whose httpd_stop fails, a stop that succeeds, and a start
\* that fails registering a handler: the server is not running
C19_Witness ==
    /\ srv.hist = << <<"start", "ESP_OK">>, <<"stop", "httpd_stop error">>,
                     <<"stop", "ESP_OK">>, <<"start", "register error">> >>
    /\ ~is_http_server_running

\* C20: stop_http_server on a server that is not running returns
\* ESP_ERR_INVALID_STATE and changes nothing; when httpd_stop fails the
\* server is still reported as running; a start that follows a successful
\* stop is not rejected as already running.
C20_StopRejectedOrKept ==
    [][ /\ ServerCall("stop")
             => /\ ~is_http_server_running
                      => (ReturnOf = "ESP_ERR_INVALID_STATE" /\ ServerUntouched)
                /\ ReturnOf = "httpd_stop error" => is_http_server_running'
                /\ ReturnOf = "ESP_OK" => ~is_http_server_running'
        /\ (/\ ServerCall("start") /\ srv.hist # <<>>
            /\ srv.hist[Len(srv.hist)] = <<"stop", "ESP_OK">>)
             => ReturnOf # "ESP_ERR_INVALID_STATE" ]_vars

\* start, stop, start have all succeeded and a later stop has failed: the
\* server is running
C20_Witness ==
    /\ srv.hist = << <<"start", "ESP_OK">>, <<"stop", "ESP_OK">>,
                     <<"start", "ESP_OK">>, <<"stop", "httpd_stop error">> >>
    /\ is_http_server_running

\* C21: a handler that waits for its completion semaphore does not hold the
\* gate: the gate was released before the wait began.
C21_GateFreeWhileWaiting ==
    \A t \in Threads : th[t].pc = "wait" => gate # t

\* one handler waits for its completion semaphore while the other holds the
\* gate for its own stack call
C21_Witness ==
    \E t1, t2 \in Threads :
        th[t1].pc = "wait" /\ th[t2].pc = "issue" /\ gate = t2

\* C22: when the stack invokes the done callback of a read whose handler is
\* waiting with its record registered, the callback gets the registry mutex
\* and goes on to post the semaphore: the notification is not lost.
C22_DoneReachesWaiter ==
    [][ \A c \in Calls :
          (/\ th[c].kind = "read" /\ th[c].pc = "wait"
           /\ reg["read"][th[c].key] = c
           /\ ops[c].st = "active" /\ ops'[c].st = "none")
              => (disp'.ph = "locked" /\ disp'.ty = "done") ]_vars

\* C23: a callback neither inserts nor removes a registry entry, and an
\* entry is removed only by a step of the handler that stored it.
C23_OnlyCreatorRemoves ==
    [][ \A R \in Regs : \A nd \in Nodes :
          reg'[R][nd] # reg[R][nd]
              => /\ disp' = disp
                 /\ \A t \in Threads : th[t].pc \notin {"w_cb_body", "w_done_body"}
                                         \/ th'[t] = th[t]
                 /\ reg[R][nd] # NoRec /\ reg'[R][nd] = NoRec
                       => th'[reg[R][nd]] # th[reg[R][nd]] ]_vars

\* a result callback is inside its body, under the registry mutex, and the
\* record it has looked up or can reach through a dangling entry is c
CallbackReaches(c) ==
    \/ /\ disp.ph = "locked" /\ disp.ty = "data"
       /\ c \in Targets(reg["read"][disp.node])
    \/ \E t \in Threads : /\ th[t].pc = "w_cb_body"
                          /\ c \in Targets(reg["write"][th[t].key])

\* C24: the handler copies the results of its record into the response only
\* while it holds the registry mutex or while no callback is at work on the
\* record.
C24_HarvestNotConcurrent ==
    [][ \A t \in Threads :
          (th[t].pc = "wait" /\ th'[t].outcome = "Success")
              => (mtx[th[t].kind] = t \/ ~CallbackReaches(t)) ]_vars

C26_GateWaitBounded ==
    \A t \in Threads : (th[t].pc = "g_gate") ~> (th[t].pc = "done")

\* C27: result and done callbacks run in the stack's delivery context only:
\* no handler thread is ever inside a callback.
C27_CallbacksFromDeliveryContext ==
    \A t \in Threads :
        th[t].pc \notin {"w_cb_take", "w_cb_body", "w_done_take", "w_done_body"}

C29_OwnResultsOnly ==
    \A t \in Threads :
        Answered(t, "Success")
            => /\ \A i \in 1..Len(th[t].resp) : th[t].resp[i][1] = t
               /\ \A i, j \in 1..Len(th[t].resp) :
                     th[t].resp[i] = th[t].resp[j] => i = j

\* C30: a write call with no other write on its node that starts to wait
\* finds its semaphore posted and one result per requested path, in request
\* order, in its record; one whose command was rejected has no result and no
\* post.
C30_WriteSignalledBeforeWait ==
    \A t \in Threads :
        (th[t].kind = "write" /\ solo[t])
            => /\ th[t].pc = "wait"
                     => /\ rec[t].sem = 1
                        /\ rec[t].items = [i \in 1..th[t].n |-> <<t, i, "path">>]
               /\ (th[t].outcome = "DispatchFailed" /\ th[t].pc = "cleanup_take")
                     => (rec[t].items = <<>> /\ rec[t].posts = 0)

\* the mutex objects created for registry R
MutexesCreated(R) == {m \in Threads : lazy.owner[R][m] # "none"}

\* the mutex objects under which some party is inside its access to map R:
\* a handler between its take and its give, or a read callback
SectionMutexes(R) ==
    {lazy.at[t].held : t \in {u \in Threads : /\ lazy.at[u].kind = R
                                              /\ lazy.at[u].pc \in {"store", "erase"}}}
    \cup (IF R = "read" /\ lazy.cb # NullMutex THEN {lazy.cb} ELSE {})

\* C31: for each registry at most one mutex object is ever created, and the
\* parties that are inside an access to the registry's map at one time all
\* hold the same mutex object.
C31_OneRegistryLock ==
    \A R \in Regs :
        /\ Cardinality(MutexesCreated(R)) <= 1
        /\ Cardinality(SectionMutexes(R)) <= 1

\* this step is a callback body for node nd of registry R, or the store, the
\* erase or the skipped erase of a handler whose key is nd in registry R
StepOnKey(R, nd) ==
    \/ /\ R = "read" /\ disp.ph = "locked" /\ disp.node = nd /\ disp' # disp
    \/ \E t \in Threads :
          /\ th[t].kind = R /\ th[t].key = nd /\ th'[t] # th[t]
          /\ th[t].pc \in {"reg_store", "w_cb_body", "w_done_body",
                           "cleanup_take", "cleanup_erase"}

\* C32: a callback for one node, and the registration or reclamation of an
\* entry for one node, leave the entry of every other node, the record it
\* refers to and that record's semaphore unchanged.
C32_OtherKeysUntouched ==
    [][ \A R \in Regs : \A a, b \in Nodes :
          (a # b /\ StepOnKey(R, a))
              => /\ reg'[R][b] = reg[R][b]
                 /\ reg[R][b] # NoRec => rec'[reg[R][b]] = rec[reg[R][b]] ]_vars

\* the records of the calls of kind R
RecordsOf(R) == {c \in Calls : th[c].kind = R /\ rec[c].st = "live"}

\* the other registry
OtherReg(R) == IF R = "read" THEN "write" ELSE "read"

\* this step is a callback body of registry R, or the erase or the skipped
\* erase of a handler of kind R
StepOnRegistry(R) ==
    \/ R = "read" /\ disp.ph = "locked" /\ disp' # disp
    \/ \E t \in Threads :
          /\ th[t].kind = R /\ th'[t] # th[t]
          /\ th[t].pc \in {"cleanup_take", "cleanup_erase"} \/
             (R = "write" /\ th[t].pc \in {"w_cb_body", "w_done_body"})

\* C33: a read callback changes no write record and no entry of the write
\* registry, a write callback no read record and no entry of the read
\* registry, and reclaiming an entry of one kind leaves the entries of the
\* other kind as they are.
C33_ReadWriteIsolated ==
    [][ \A R \in Regs :
          StepOnRegistry(R)
              => /\ reg'[OtherReg(R)] = reg[OtherReg(R)]
                 /\ \A c \in RecordsOf(OtherReg(R)) : rec'[c] = rec[c] ]_vars

\* C34: a read or write handler that does not get the registry mutex at
\* registration returns InternalError; it leaves both registries, the gate
\* and the stack's commands as they are, has not taken the gate, and its
\* record is deleted.
C34_RegistrationTimeoutClean ==
    [][ \A t \in Threads :
          (th[t].pc = "reg_take" /\ mtx[th[t].kind] # "free" /\ th'[t] # th[t])
              => /\ th'[t].pc = "done" /\ th'[t].outcome = "InternalError"
                 /\ reg' = reg /\ gate' = gate /\ ops' = ops
                 /\ th'[t].acq = 0
                 /\ rec'[t].st = "freed" ]_vars

\* a handler has returned InternalError without ever taking the gate while
\* the other handler is inside its store under the same registry mutex
C34_Witness ==
    \E t1, t2 \in Threads :
        /\ th[t1].kind \in Regs /\ th[t1].pc = "done"
        /\ th[t1].outcome = "InternalError" /\ th[t1].acq = 0
        /\ rec[t1].st = "freed"
        /\ th[t2].pc = "reg_store" /\ th[t2].kind = th[t1].kind

\* C35: whenever a read or write handler sends a response, the status line
\* carries the status code the handler passed for its outcome: 200 for
\* Success, 408 for Timeout, 503 for Busy, 500 for DispatchFailed.
C35_StatusSentAsPassed ==
    \A t \in Threads :
        (th[t].kind \in Regs /\ th[t].outcome # "none")
            => \A json_ok, cjson_print_ok \in BOOLEAN :
                  SentStatus(t, json_ok, cjson_print_ok) # NoStatus
                      => SentStatus(t, json_ok, cjson_print_ok) = StatusCode(th[t].outcome)

\* this step posts the event event_id
Posted(event_id) ==
    /\ Len(app'.posted) = Len(app.posted) + 1
    /\ app'.posted[Len(app'.posted)] = event_id

\* setup_matter_controller_with_http_server has been called
IsSetUp == app.registered # {}

\* C36: in a system that has been set up, when WIFI_EVENT_STA_DISCONNECTED
\* has been posted and handled the HTTP server is not running.
C36_DisconnectStopsServer ==
    [][ (IsSetUp /\ Posted("WIFI_EVENT_STA_DISCONNECTED"))
            => ~is_http_server_running' ]_vars

\* C37: in a system that has been set up, after an IP_EVENT_STA_GOT_IP event
\* for which the server was already running or start_http_server returned
\* ESP_OK, the HTTP server is running.
C37_GotIpStartsServer ==
    [][ (/\ IsSetUp /\ Posted("IP_EVENT_STA_GOT_IP")
         /\ \/ is_http_server_running
            \/ (ServerCall("start") /\ ReturnOf = "ESP_OK"))
            => is_http_server_running' ]_vars

\* GOT_IP, a disconnect and GOT_IP again: the second start was rejected as
\* already running and the server runs
C37_Witness ==
    /\ IsSetUp
    /\ app.posted = <<"IP_EVENT_STA_GOT_IP", "WIFI_EVENT_STA_DISCONNECTED",
                      "IP_EVENT_STA_GOT_IP">>
    /\ srv.hist = << <<"start", "ESP_OK">>, <<"start", "ESP_ERR_INVALID_STATE">> >>
    /\ is_http_server_running

====
